---- MODULE Spec2Model ----
(***************************************************************************)
(* NFC_Med back-office: the record catalogue ("fiches medicales") of the   *)
(* two variants of the admin page, src/app/page.tsx (variant "page") and   *)
(* src/unnamed/part_000 (variant "admin"), as a state machine.             *)
(*                                                                         *)
(* JavaScript values are tagged records, so that the dynamic type checks   *)
(* of the code (typeof, Array.isArray, truthiness) can be modelled.  A     *)
(* string is the sequence of its characters.                               *)
(***************************************************************************)
EXTENDS Integers, Sequences, FiniteSets, TLC

VARIABLES
  variant,      \* "page": src/app/page.tsx; "admin": src/unnamed/part_000
  phase,        \* "init": rendered once, effects not yet run; "ready"
  cards,        \* the catalogue (state of the page component)
  baseUrl,      \* the base URL (state of the page component)
  editId,       \* id of the record open in the edit dialog, or null
  deleteId,     \* id of the record awaiting delete confirmation, or null
  storage,      \* localStorage item STORAGE_KEY
  storageBase,  \* localStorage item BASEURL_KEY
  imp,          \* the import in flight (suspended at await f.text()), or null
  zipJob,       \* the archive being generated (await generateAsync), or null
  now,          \* the clock
  steps,        \* number of events handled so far
  creates,      \* history: number of createNew calls, if the catalogue was
                \* empty after mount and nothing else has changed it; else -1
  lastOp,       \* history: the last catalogue operation and its inputs
  input,        \* the arguments of a function applied on its own, or null
  output        \* the value that application returned, or null

vars == <<variant, phase, cards, baseUrl, editId, deleteId, storage,
          storageBase, imp, zipJob, now, steps, creates, lastOp, input, output>>

-----------------------------------------------------------------------------
(* JavaScript values *)

Undef == [t |-> "undef"]
Null == [t |-> "null"]
Str(s) == [t |-> "str", s |-> s]
Num(n) == [t |-> "num", n |-> n]
Arr(a) == [t |-> "arr", a |-> a]
Obj(o) == [t |-> "obj", o |-> o]

EmptyStr == Str(<<>>)

IsString(v) == v.t = "str"
IsArray(v) == v.t = "arr"
IsObject(v) == v.t \in {"obj", "arr"}

\* ToBoolean: undefined, null, "" and 0 are falsy
Truthy(v) ==
  CASE v.t = "undef" -> FALSE
    [] v.t = "null" -> FALSE
    [] v.t = "str" -> v.s # <<>>
    [] v.t = "num" -> v.n # 0
    [] OTHER -> TRUE

\* a || b
Or(a, b) == IF Truthy(a) THEN a ELSE b

\* json?.k and obj[k]: undefined unless the value is an object that has k
Get(v, k) == IF v.t = "obj" /\ k \in DOMAIN v.o THEN v.o[k] ELSE Undef

\* c.k on an in-memory card (a record of values): undefined when absent
Field(c, k) == IF k \in DOMAIN c THEN c[k] ELSE Undef

-----------------------------------------------------------------------------
(* Character strings *)

Whitespace == {" ", "\t", "\n"}

Uppers == <<"A","B","C","D","E","F","G","H","I","J","K","L","M",
            "N","O","P","Q","R","S","T","U","V","W","X","Y","Z">>
Lowers == <<"a","b","c","d","e","f","g","h","i","j","k","l","m",
            "n","o","p","q","r","s","t","u","v","w","x","y","z">>
Digits == <<"0","1","2","3","4","5","6","7","8","9">>

\* the 36-symbol alphabet of nanoid
alpha == Digits \o Lowers

LowerChar(c) ==
  IF \E i \in DOMAIN Uppers : Uppers[i] = c
    THEN Lowers[CHOOSE i \in DOMAIN Uppers : Uppers[i] = c]
    ELSE c

LowerCase(s) == [i \in DOMAIN s |-> LowerChar(s[i])]

StartsWith(s, p) == Len(s) >= Len(p) /\ SubSeq(s, 1, Len(p)) = p
EndsWith(s, p) == Len(s) >= Len(p) /\ SubSeq(s, Len(s) - Len(p) + 1, Len(s)) = p

RECURSIVE TrimStart(_)
TrimStart(s) ==
  IF s # <<>> /\ Head(s) \in Whitespace THEN TrimStart(Tail(s)) ELSE s

RECURSIVE TrimEnd(_)
TrimEnd(s) ==
  IF s # <<>> /\ s[Len(s)] \in Whitespace
    THEN TrimEnd(SubSeq(s, 1, Len(s) - 1))
    ELSE s

\* String.prototype.trim
Trim(s) == TrimEnd(TrimStart(s))

\* faulty variant: the trailing slash is kept
StripTrailingSlash_kept(s) == s

\* s.replace(/\/$/, ""): one trailing slash removed
StripTrailingSlash(s) ==
  IF EndsWith(s, <<"/">>) THEN SubSeq(s, 1, Len(s) - 1) ELSE s

\* s.replace(/\s+/g, ""): every whitespace character removed
StripWhitespace(s) == SelectSeq(s, LAMBDA c : c \notin Whitespace)

\* characters encodeURIComponent leaves as they are
Unreserved ==
  {Uppers[i] : i \in DOMAIN Uppers} \cup {Lowers[i] : i \in DOMAIN Lowers}
    \cup {Digits[i] : i \in DOMAIN Digits}
    \cup {"-", "_", ".", "!", "~", "*", "'", "(", ")"}

\* the %XX escape of the other ASCII characters the model uses
PercentEscape(c) ==
  CASE c = " " -> <<"%","2","0">>
    [] c = "\t" -> <<"%","0","9">>
    [] c = "\n" -> <<"%","0","A">>
    [] c = "#" -> <<"%","2","3">>
    [] c = "%" -> <<"%","2","5">>
    [] c = "&" -> <<"%","2","6">>
    [] c = "+" -> <<"%","2","B">>
    [] c = "," -> <<"%","2","C">>
    [] c = "/" -> <<"%","2","F">>
    [] c = ":" -> <<"%","3","A">>
    [] c = "=" -> <<"%","3","D">>
    [] c = "?" -> <<"%","3","F">>
    [] c = "[" -> <<"%","5","B">>
    [] c = "]" -> <<"%","5","D">>

RECURSIVE EncodeChars(_)
EncodeChars(s) ==
  IF s = <<>> THEN <<>>
  ELSE (IF Head(s) \in Unreserved THEN <<Head(s)>> ELSE PercentEscape(Head(s)))
         \o EncodeChars(Tail(s))

RECURSIVE JoinChars(_, _)
JoinChars(parts, sep) ==
  IF parts = <<>> THEN <<>>
  ELSE IF Len(parts) = 1 THEN parts[1]
  ELSE parts[1] \o sep \o JoinChars(Tail(parts), sep)

\* String(v): the characters of ToString(v)
RECURSIVE ToChars(_)
ToChars(v) ==
  CASE v.t = "str" -> v.s
    [] v.t = "undef" -> <<"u","n","d","e","f","i","n","e","d">>
    [] v.t = "null" -> <<"n","u","l","l">>
    [] v.t = "num" -> <<Digits[v.n + 1]>>
    [] v.t = "arr" ->
         JoinChars([i \in DOMAIN v.a |->
                      IF v.a[i].t \in {"undef", "null"} THEN <<>>
                      ELSE ToChars(v.a[i])], <<",">>)
    [] v.t = "obj" ->
         <<"[","o","b","j","e","c","t"," ","O","b","j","e","c","t","]">>

\* encodeURIComponent(v)
encodeURIComponent(v) == Str(EncodeChars(ToChars(v)))

-----------------------------------------------------------------------------
(* Pure functions of the two variants; v is "page" or "admin" *)

\* the sample of 32-bit words the random source returns in the model
RandomWords == {10, 47}

\* default length of a generated id, and length of a collision suffix
DefaultIdLen == 10
SuffixLen == 4

\* nanoid(n), given the n random words rs drawn by crypto.getRandomValues
nanoid(rs) == Str([i \in DOMAIN rs |-> alpha[(rs[i] % Len(alpha)) + 1]])

\* the draws of n random words the model considers: one word repeated
RandomDraws(n) == {[i \in 1..n |-> r] : r \in RandomWords}

\* the instant `clock` as the text new Date().toISOString() returns
nowISO(clock) == Str(<<"T", Digits[clock + 1]>>)

S_https == <<"h","t","t","p","s",":","/","/">>
S_http == <<"h","t","t","p",":","/","/">>
DefaultHostPage == S_https \o <<"t","o","n","-","d","o","m","a","i","n","e">>
DefaultHostAdmin ==
  <<"n","f","c","-","m","e","d",".","v","e","r","c","e","l",".","a","p","p">>

DefaultHost(v) == IF v = "page" THEN DefaultHostPage ELSE DefaultHostAdmin

\* /^https?:\/\//i.test(s)
HasScheme(s) ==
  StartsWith(LowerCase(s), S_https) \/ StartsWith(LowerCase(s), S_http)

sanitizeBaseUrl(v, b) ==
  IF ~Truthy(b) THEN EmptyStr
  ELSE IF v = "page"
    THEN LET s == StripTrailingSlash(Trim(b.s))
         IN  IF HasScheme(s) THEN Str(s) ELSE Str(S_https \o s)
    ELSE Str(StripTrailingSlash(b.s))

\* faulty variant: the query parameter is appended whatever the token
buildPublicUrl_alwaysToken(v, b, id, token) ==
  Str(ToChars(Or(sanitizeBaseUrl(v, b), Str(DefaultHost(v))))
        \o <<"/","m","/">> \o encodeURIComponent(id).s
        \o <<"?","t","=">> \o encodeURIComponent(token).s)

buildPublicUrl(v, b, id, token) ==
  LET u == ToChars(Or(sanitizeBaseUrl(v, b), Str(DefaultHost(v))))
             \o <<"/","m","/">> \o encodeURIComponent(id).s
  IN  IF Truthy(token)
        THEN Str(u \o <<"?","t","=">> \o encodeURIComponent(token).s)
        ELSE Str(u)

\* { nom: card.urgence.nom || "", telephone: card.urgence.telephone || "" }
UrgenceOrEmpty(u) ==
  IF Truthy(u)
    THEN Obj([nom |-> Or(Get(u, "nom"), EmptyStr),
              telephone |-> Or(Get(u, "telephone"), EmptyStr)])
    ELSE Obj([nom |-> EmptyStr, telephone |-> EmptyStr])

\* faulty variant: the token is never exported
WithToken_never(o, token) == o

\* ...(card.token ? { token: card.token } : {})
WithToken(o, token) ==
  IF Truthy(token)
    THEN [k \in DOMAIN o \cup {"token"} |-> IF k = "token" THEN token ELSE o[k]]
    ELSE o

cardToJson(v, card, b, clock) ==
  LET common ==
        [nom |-> Or(Field(card, "nom"), EmptyStr),
         adresse |-> Or(Field(card, "adresse"), EmptyStr),
         telephone |-> Or(Field(card, "telephone"), EmptyStr),
         groupe_sanguin |-> Or(Field(card, "groupe_sanguin"), EmptyStr),
         allergies |-> Or(Field(card, "allergies"), Arr(<<>>)),
         traitements |-> Or(Field(card, "traitements"), EmptyStr),
         medicaments |-> Or(Field(card, "medicaments"), Arr(<<>>)),
         urgence |-> UrgenceOrEmpty(Field(card, "urgence")),
         last_update |-> Or(Field(card, "last_update"), nowISO(clock))]
      withUrl ==
        IF v = "page"
          THEN [k \in DOMAIN common \cup {"url"} |->
                  IF k = "url"
                    THEN buildPublicUrl(v, b, Field(card, "id"), Field(card, "token"))
                    ELSE common[k]]
          ELSE common
  IN  Obj(WithToken(withUrl, Field(card, "token")))

\* number of whitespace characters of s from position q on
RECURSIVE WsRun(_, _)
WsRun(s, q) ==
  IF q <= Len(s) /\ s[q] \in Whitespace THEN 1 + WsRun(s, q + 1) ELSE 0

RECURSIVE NlRun(_, _)
NlRun(s, q) ==
  IF q <= Len(s) /\ s[q] = "\n" THEN 1 + NlRun(s, q + 1) ELSE 0

\* /\s*,\s*|\n+/ matched at position q: the position after the match, 0 if none
MatchEnd(s, q) ==
  LET w == WsRun(s, q)
  IN  IF q + w <= Len(s) /\ s[q + w] = ","
        THEN q + w + 1 + WsRun(s, q + w + 1)
        ELSE IF NlRun(s, q) > 0 THEN q + NlRun(s, q) ELSE 0

\* s.split(/\s*,\s*|\n+/) from the last split point p, scanning at q
RECURSIVE SplitFrom(_, _, _)
SplitFrom(s, p, q) ==
  IF q > Len(s) THEN <<SubSeq(s, p, Len(s))>>
  ELSE LET e == MatchEnd(s, q)
       IN  IF e = 0 THEN SplitFrom(s, p, q + 1)
           ELSE <<SubSeq(s, p, q - 1)>> \o SplitFrom(s, e, e)

\* String(x).split(/\s*,\s*|\n+/).filter(Boolean), as an array of strings
SplitList(s) ==
  Arr([i \in DOMAIN SelectSeq(SplitFrom(s, 1, 1), LAMBDA x : x # <<>>) |->
         Str(SelectSeq(SplitFrom(s, 1, 1), LAMBDA x : x # <<>>)[i])])

asString(x, def) == IF IsString(x) THEN x ELSE def

toStringArray(x) ==
  IF IsArray(x)
    THEN Arr(SelectSeq([i \in DOMAIN x.a |-> Str(ToChars(x.a[i]))],
                       LAMBDA e : Truthy(e)))
    ELSE IF IsString(x) THEN SplitList(x.s) ELSE Arr(<<>>)

\* the allergies / medicaments expression of page.tsx
ListOfPage(x) ==
  IF IsArray(x) THEN x
  ELSE IF Truthy(x) THEN SplitList(ToChars(x)) ELSE Arr(<<>>)

\* fromJsonToCard(json, id); fresh is the value nanoid() returns if it is called
fromJsonToCard(v, json, id, fresh, clock) ==
  IF v = "page"
    THEN [id |-> Or(id, fresh),
          token |-> Or(Get(json, "token"), EmptyStr),
          nom |-> Or(Get(json, "nom"), EmptyStr),
          adresse |-> Or(Get(json, "adresse"), EmptyStr),
          telephone |-> Or(Get(json, "telephone"), EmptyStr),
          groupe_sanguin |-> Or(Get(json, "groupe_sanguin"), EmptyStr),
          allergies |-> ListOfPage(Get(json, "allergies")),
          traitements |-> Or(Get(json, "traitements"), EmptyStr),
          medicaments |-> ListOfPage(Get(json, "medicaments")),
          urgence |-> UrgenceOrEmpty(Get(json, "urgence")),
          url |-> Or(Get(json, "url"), EmptyStr),
          last_update |-> Or(Get(json, "last_update"), nowISO(clock))]
    ELSE LET obj == IF Truthy(json) /\ IsObject(json) THEN json ELSE Obj(<<>>)
             u == IF Truthy(Get(obj, "urgence")) /\ IsObject(Get(obj, "urgence"))
                    THEN Get(obj, "urgence") ELSE Undef
         IN  [id |-> Or(id, fresh),
              token |-> asString(Get(obj, "token"), EmptyStr),
              nom |-> asString(Get(obj, "nom"), EmptyStr),
              adresse |-> asString(Get(obj, "adresse"), EmptyStr),
              telephone |-> asString(Get(obj, "telephone"), EmptyStr),
              groupe_sanguin |-> asString(Get(obj, "groupe_sanguin"), EmptyStr),
              allergies |-> toStringArray(Get(obj, "allergies")),
              traitements |-> asString(Get(obj, "traitements"), EmptyStr),
              medicaments |-> toStringArray(Get(obj, "medicaments")),
              urgence |-> IF u # Undef
                            THEN Obj([nom |-> asString(Get(u, "nom"), EmptyStr),
                                      telephone |-> asString(Get(u, "telephone"), EmptyStr)])
                            ELSE Obj([nom |-> EmptyStr, telephone |-> EmptyStr]),
              last_update |-> asString(Get(obj, "last_update"), nowISO(clock))]

-----------------------------------------------------------------------------
(* Browser storage and JSON text *)

\* localStorage.getItem of a missing key returns null; a stored text is
\* empty, not JSON, or the text of a JSON value j
RawEmpty == [t |-> "text", k |-> "empty"]
RawMalformed == [t |-> "text", k |-> "malformed"]
RawJson(j) == [t |-> "text", k |-> "json", j |-> j]

\* if (raw): null and "" are falsy
RawTruthy(raw) == raw.t = "text" /\ raw.k # "empty"

\* JSON.parse(raw) throws unless raw is the text of a JSON value
ParseThrows(raw) == raw.k # "json"
JSONparse(raw) == raw.j

\* JSON.stringify of an object: members whose value is undefined are left out
DropUndefined(c) == [k \in {x \in DOMAIN c : c[x] # Undef} |-> c[k]]

\* JSON.stringify(cards)
JSONstringify(cs) == RawJson(Arr([i \in DOMAIN cs |-> Obj(DropUndefined(cs[i]))]))

\* the array a parsed text denotes, as the in-memory list of its objects
ArrayItems(j) == [i \in DOMAIN j.a |-> j.a[i].o]

-----------------------------------------------------------------------------
(* Catalogue operations; prev is the catalogue the state updater receives *)

\* { ...c, [k]: val }
With(c, k, val) == [x \in DOMAIN c \cup {k} |-> IF x = k THEN val ELSE c[x]]

\* the record createNew builds
NewCard(v, id, b, clock) ==
  LET c == [id |-> id, token |-> EmptyStr, nom |-> EmptyStr, adresse |-> EmptyStr,
            telephone |-> EmptyStr, groupe_sanguin |-> EmptyStr,
            allergies |-> Arr(<<>>), traitements |-> EmptyStr,
            medicaments |-> Arr(<<>>),
            urgence |-> Obj([nom |-> EmptyStr, telephone |-> EmptyStr]),
            last_update |-> nowISO(clock)]
  IN  IF v = "page" THEN With(c, "url", buildPublicUrl(v, b, c.id, c.token)) ELSE c

\* faulty variant: the new record is put last
createNewCards_last(prev, c) == Append(prev, c)

\* setCards((prev) => [c, ...prev])
createNewCards(prev, c) == <<c>> \o prev

\* cards.find((c) => c.id === id) || null
FindCard(cs, id) ==
  IF \E i \in DOMAIN cs : Field(cs[i], "id") = id
    THEN cs[CHOOSE i \in DOMAIN cs :
              /\ Field(cs[i], "id") = id
              /\ \A j \in 1..(i - 1) : Field(cs[j], "id") # id]
    ELSE Null

\* (updated.id || "").trim() || nanoid()   (page.tsx)
SafeId(updated, fresh) == Or(Str(Trim(Or(Field(updated, "id"), EmptyStr).s)), fresh)

\* prev.some((c) => c.id === baseCard.id && c.id !== editId)   (page.tsx)
HasConflict(prev, id, eid) ==
  \E i \in DOMAIN prev : Field(prev[i], "id") = id /\ Field(prev[i], "id") # eid

\* faulty variant: part_000 too replaces the entry that was opened for editing
saveCardCards_byEditId(v, prev, updated, eid, b, fresh, suffix, clock) ==
  [i \in DOMAIN prev |-> IF Field(prev[i], "id") = eid THEN updated ELSE prev[i]]

\* faulty variant: the record opened is removed and the submitted one put last
saveCardCards_moveLast(v, prev, updated, eid, b, fresh, suffix, clock) ==
  Append(SelectSeq(prev, LAMBDA c : Field(c, "id") # eid), updated)

\* the state updater of saveCard; eid is the editId of the render that
\* made the handler, fresh and suffix what nanoid() and nanoid(4) return
saveCardCards(v, prev, updated, eid, b, fresh, suffix, clock) ==
  IF v = "page"
    THEN LET baseCard == With(With(updated, "id", SafeId(updated, fresh)),
                              "last_update", nowISO(clock))
             finalId == IF HasConflict(prev, baseCard.id, eid)
                          THEN Str(baseCard.id.s \o <<"-">> \o suffix.s)
                          ELSE baseCard.id
             finalCard == With(With(baseCard, "id", finalId), "url",
                               buildPublicUrl(v, b, finalId, Field(baseCard, "token")))
             target == IF eid # Null THEN eid ELSE baseCard.id
         IN  [i \in DOMAIN prev |->
                IF Field(prev[i], "id") = target THEN finalCard ELSE prev[i]]
    ELSE [i \in DOMAIN prev |->
            IF Field(prev[i], "id") = Field(updated, "id") THEN updated ELSE prev[i]]

\* faulty variant: the filter keeps the matching entries
deleteCardCards_inverted(prev, id) == SelectSeq(prev, LAMBDA c : Field(c, "id") = id)

\* setCards((prev) => prev.filter((c) => c.id !== id))
deleteCardCards(prev, id) == SelectSeq(prev, LAMBDA c : Field(c, "id") # id)

\* faulty variant: a key that is present keeps its first value
MapSet_firstWins(m, key, val) ==
  IF \E i \in DOMAIN m : m[i].key = key
    THEN m
    ELSE Append(m, [key |-> key, val |-> val])

\* Map.prototype.set on an insertion-ordered list of [key, value] entries
MapSet(m, key, val) ==
  IF \E i \in DOMAIN m : m[i].key = key
    THEN [i \in DOMAIN m |-> IF m[i].key = key THEN [key |-> key, val |-> val] ELSE m[i]]
    ELSE Append(m, [key |-> key, val |-> val])

RECURSIVE MapOfCards(_, _)
MapOfCards(m, cs) ==
  IF cs = <<>> THEN m
  ELSE MapOfCards(MapSet(m, Field(Head(cs), "id"), Head(cs)), Tail(cs))

\* the state updater of the import: imported cards replace or follow prev
mergeImported(v, prev, imported, b) ==
  LET tagged == [i \in DOMAIN imported |->
                   IF v = "page"
                     THEN With(imported[i], "url",
                               buildPublicUrl(v, b, Field(imported[i], "id"),
                                              Field(imported[i], "token")))
                     ELSE imported[i]]
      m == MapOfCards(MapOfCards(<<>>, prev), tagged)
  IN  [i \in DOMAIN m |-> m[i].val]

\* prev.map((c) => ({ ...c, url: buildPublicUrl(baseUrl, c.id, c.token) }))
recomputeUrls(v, prev, b) ==
  [i \in DOMAIN prev |->
     With(prev[i], "url",
          buildPublicUrl(v, b, Field(prev[i], "id"), Field(prev[i], "token")))]

\* f.name.replace(/\.json$/i, "")
S_dotjson == <<".","j","s","o","n">>
inferredId(name) ==
  IF EndsWith(LowerCase(name), S_dotjson)
    THEN Str(SubSeq(name, 1, Len(name) - Len(S_dotjson)))
    ELSE Str(name)

\* faulty variant: a file that does not parse yields an all-default card
importedOf_noSkip(v, f, fresh, clock) ==
  IF ParseThrows(f.text)
    THEN <<fromJsonToCard(v, Undef, inferredId(f.name), fresh, clock)>>
    ELSE <<fromJsonToCard(v, JSONparse(f.text), inferredId(f.name), fresh, clock)>>

\* one turn of the import loop: the card a file yields, or nothing
importedOf(v, f, fresh, clock) ==
  IF ParseThrows(f.text) THEN <<>>
  ELSE <<fromJsonToCard(v, JSONparse(f.text), inferredId(f.name), fresh, clock)>>

\* the files exportZip puts under data/, and the README's base URL
RECURSIVE zipFiles(_, _, _, _, _)
zipFiles(m, v, cs, b, clock) ==
  IF cs = <<>> THEN m
  ELSE zipFiles(MapSet(m, ToChars(Field(Head(cs), "id")) \o S_dotjson,
                       cardToJson(v, Head(cs), b, clock)),
                v, Tail(cs), b, clock)

zipOf(v, cs, b, clock) ==
  [data |-> zipFiles(<<>>, v, cs, b, clock), readme |-> sanitizeBaseUrl(v, b)]

-----------------------------------------------------------------------------
(* Bounds and inputs *)

MaxCards == 3
MaxClock == 1
MaxSteps == 4

Variants == {"page", "admin"}

\* window.location.origin
Origin == Str(S_https \o <<"o">>)

Id_b == Str(<<"b">>)
Id_c == Str(<<"c">>)
Id_z == Str(<<"z">>)
Id_b_aaaa == Str(<<"b","-","a","a","a","a">>)

\* what the user types in the id, name and token fields of the edit dialog
TypedIds == {Id_b, Id_z, EmptyStr}
TypedNames == {Str(<<"A">>)}
TypedTokens == {Str(<<"k">>)}

\* what the user types in the base URL field
BaseUrlInputs == {Str(<<"x","/">>), Str(<<"y">>)}
StoredBaseUrls == {Null, Str(<<"x","/">>)}

\* a well-formed stored record
StoredCard(v, id, nom) == With(NewCard(v, id, Str(<<"x","/">>), 0), "nom", nom)

\* a stored record that was written without its member k
StoredWithout(c, k) == [x \in DOMAIN c \ {k} |-> c[x]]

\* the values localStorage may hold under STORAGE_KEY when the page opens
InitialStorage(v) ==
  {Null, RawEmpty, RawMalformed, RawJson(Obj(<<>>)), RawJson(Arr(<<>>)),
   JSONstringify(<<StoredCard(v, Id_b, Str(<<"B">>)),
                   StoredCard(v, Id_b_aaaa, EmptyStr)>>),
   JSONstringify(<<StoredWithout(StoredCard(v, Id_c, Str(<<"C">>)), "allergies")>>)}

File(name, text) == [name |-> name, text |-> text]
Json_A == RawJson(Obj([nom |-> Str(<<"A">>)]))
Json_B == RawJson(Obj([nom |-> Str(<<"B">>), token |-> Str(<<"k">>)]))
N_b_json == <<"b",".","j","s","o","n">>
N_b_JSON == <<"b",".","J","S","O","N">>
N_c_json == <<"c",".","j","s","o","n">>
N_json == <<".","j","s","o","n">>
N_JSON == <<".","J","S","O","N">>

\* the file lists the user may pick in the import dialog
ImportBatches ==
  {<<>>,
   <<File(N_b_json, Json_A)>>,
   <<File(N_b_json, Json_A), File(N_b_JSON, Json_B)>>,
   <<File(N_b_json, RawMalformed), File(N_c_json, Json_A)>>,
   <<File(N_b_json, RawMalformed)>>,
   <<File(N_json, Json_A), File(N_JSON, Json_B)>>,
   <<File(N_c_json, RawJson(Null)), File(N_b_json, Json_B)>>}

NoOp == [op |-> "none"]

-----------------------------------------------------------------------------
(* Initial state: the component has rendered once, no effect has run *)

Init ==
  /\ variant \in Variants
  /\ phase = "init"
  /\ cards = <<>>
  /\ storageBase \in StoredBaseUrls
  /\ baseUrl = IF variant = "page" THEN Or(storageBase, Origin)
               ELSE Str(DefaultHostAdmin)
  /\ editId = Null
  /\ deleteId = Null
  /\ storage \in InitialStorage(variant)
  /\ imp = Null
  /\ zipJob = Null
  /\ now = 0
  /\ steps = 0
  /\ creates = -1
  /\ lastOp = NoOp
  /\ input = Null
  /\ output = Null

-----------------------------------------------------------------------------
(* Mount: the effects of the first commit, then the render they cause *)

\* the state update the load effect queues, reading the stored text raw
loadEffect(raw) ==
  IF RawTruthy(raw) /\ ~ParseThrows(raw) /\ IsArray(JSONparse(raw))
    THEN <<[k |-> "set", cs |-> ArrayItems(JSONparse(raw))]>>
    ELSE <<>>

\* the state update the base URL effect of page.tsx queues
baseUrlEffect(v, b) == IF v = "page" THEN <<[k |-> "urls", b |-> b]>> ELSE <<>>

RECURSIVE applyUpdates(_, _, _)
applyUpdates(v, q, cs) ==
  IF q = <<>> THEN cs
  ELSE applyUpdates(v, Tail(q),
                    IF Head(q).k = "set" THEN Head(q).cs
                    ELSE recomputeUrls(v, cs, Head(q).b))

\* the updates queued by the mount effects, run once or (strict mode) twice;
\* between the two runs the persist effect has stored the rendered, empty list
mountUpdates(v, raw, b, strict) ==
  loadEffect(raw) \o baseUrlEffect(v, b)
    \o (IF strict THEN loadEffect(JSONstringify(<<>>)) \o baseUrlEffect(v, b)
        ELSE <<>>)

\* if (stored) setBaseUrl(stored)   (part_000)
baseUrlLoaded(sb, b) == IF Truthy(sb) THEN sb ELSE b

\* the base URL after the mount effects: part_000 reads the stored one; on
\* the second run the first run has already stored the rendered base URL b
mountBaseUrl(v, b, sb, strict) ==
  IF v = "admin"
    THEN IF strict THEN baseUrlLoaded(b, baseUrlLoaded(sb, b))
         ELSE baseUrlLoaded(sb, b)
    ELSE b

\* faulty variant: only the first record is written
persistEffect_partial(cs) ==
  IF cs = <<>> THEN JSONstringify(cs) ELSE JSONstringify(<<cs[1]>>)

\* localStorage.setItem(STORAGE_KEY, JSON.stringify(cards)), run after every
\* render in which cards changed
persistEffect(cs) == JSONstringify(cs)

Mount ==
  /\ phase = "init"
  /\ \E strict \in BOOLEAN :
       /\ cards' = applyUpdates(variant,
                                mountUpdates(variant, storage, baseUrl, strict),
                                cards)
       /\ baseUrl' = mountBaseUrl(variant, baseUrl, storageBase, strict)
       /\ lastOp' = [op |-> "mount", pre |-> cards,
                     arg |-> [strict |-> strict, raw |-> storage]]
  /\ storage' = persistEffect(cards')
  /\ storageBase' = baseUrl'
  /\ phase' = "ready"
  /\ creates' = IF cards' = <<>> THEN 0 ELSE -1
  /\ UNCHANGED <<variant, editId, deleteId, imp, zipJob, now, steps>>
  /\ UNCHANGED <<input, output>>

-----------------------------------------------------------------------------
(* Event handlers.  Each action is one handler with the render and the     *)
(* effects it causes; an async handler is one action per resumption.       *)

Ready == phase = "ready" /\ steps < MaxSteps

CardIds == {Field(cards[i], "id") : i \in DOMAIN cards}

CreateNew ==
  /\ Ready
  /\ Len(cards) < MaxCards
  /\ \E rs \in RandomDraws(DefaultIdLen) :
       LET c == NewCard(variant, nanoid(rs), baseUrl, now)
       IN  /\ cards' = createNewCards(cards, c)
           /\ editId' = c.id
           /\ lastOp' = [op |-> "create", pre |-> cards, arg |-> c.id]
  /\ storage' = persistEffect(cards')
  /\ steps' = steps + 1
  /\ creates' = IF creates >= 0 THEN creates + 1 ELSE -1
  /\ UNCHANGED <<variant, phase, baseUrl, deleteId, storageBase, imp, zipJob, now>>
  /\ UNCHANGED <<input, output>>

\* onEdit(c.id) of a table row
OpenEdit ==
  /\ Ready
  /\ \E id \in CardIds : id # editId /\ editId' = id
  /\ lastOp' = NoOp
  /\ steps' = steps + 1
  /\ UNCHANGED <<creates, variant, phase, cards, baseUrl, deleteId, storage, storageBase,
                 imp, zipJob, now>>
  /\ UNCHANGED <<input, output>>

\* Annuler in the edit dialog
CloseEdit ==
  /\ Ready
  /\ editId # Null
  /\ editId' = Null
  /\ lastOp' = NoOp
  /\ steps' = steps + 1
  /\ UNCHANGED <<creates, variant, phase, cards, baseUrl, deleteId, storage, storageBase,
                 imp, zipJob, now>>
  /\ UNCHANGED <<input, output>>

\* the id field's onChange: page.tsx strips whitespace from what is typed
typedId(v, typed) == IF v = "page" THEN Str(StripWhitespace(typed.s)) ELSE typed

\* the records the edit dialog may hold for the record `editing` when
\* Enregistrer is clicked: the id kept or typed over, and the name and the
\* token either both kept or both typed over
FormContents(v, editing) ==
  {With(With(With(editing, "id", id), "nom", nt[1]), "token", nt[2]) :
     id \in {Field(editing, "id")} \cup {typedId(v, x) : x \in TypedIds},
     nt \in {<<Field(editing, "nom"), Field(editing, "token")>>}
              \cup (TypedNames \X TypedTokens)}

\* onSave({ ...local, last_update: nowISO() })
Enregistrer(local, clock) == With(local, "last_update", nowISO(clock))

\* the draws of nanoid() that matter to a save of `updated`
FreshDraws(v, updated) ==
  IF v = "page" /\ ~Truthy(Str(Trim(Or(Field(updated, "id"), EmptyStr).s)))
    THEN RandomDraws(DefaultIdLen) ELSE {<<>>}

Save ==
  /\ Ready
  /\ Truthy(editId)
  /\ FindCard(cards, editId) # Null
  /\ \E local \in FormContents(variant, FindCard(cards, editId)) :
       LET updated == Enregistrer(local, now)
       IN  \E fresh \in FreshDraws(variant, updated) :
             \E suffix \in (IF variant = "page" THEN RandomDraws(SuffixLen) ELSE {<<>>}) :
               /\ cards' = saveCardCards(variant, cards, updated, editId, baseUrl,
                                         nanoid(fresh), nanoid(suffix), now)
               /\ lastOp' = [op |-> "save", pre |-> cards,
                             arg |-> [updated |-> updated, eid |-> editId]]
  /\ editId' = Null
  /\ storage' = persistEffect(cards')
  /\ steps' = steps + 1
  /\ creates' = -1
  /\ UNCHANGED <<variant, phase, baseUrl, deleteId, storageBase, imp, zipJob, now>>
  /\ UNCHANGED <<input, output>>

\* onDelete(c.id) of a table row
RequestDelete ==
  /\ Ready
  /\ \E id \in CardIds : id # deleteId /\ deleteId' = id
  /\ lastOp' = NoOp
  /\ steps' = steps + 1
  /\ UNCHANGED <<creates, variant, phase, cards, baseUrl, editId, storage, storageBase,
                 imp, zipJob, now>>
  /\ UNCHANGED <<input, output>>

\* Annuler in the confirmation dialog
CancelDelete ==
  /\ Ready
  /\ deleteId # Null
  /\ deleteId' = Null
  /\ lastOp' = NoOp
  /\ steps' = steps + 1
  /\ UNCHANGED <<creates, variant, phase, cards, baseUrl, editId, storage, storageBase,
                 imp, zipJob, now>>
  /\ UNCHANGED <<input, output>>

\* Supprimer in the confirmation dialog: deleteCard(deleteId)
ConfirmDelete ==
  /\ Ready
  /\ Truthy(deleteId)
  /\ cards' = deleteCardCards(cards, deleteId)
  /\ deleteId' = Null
  /\ lastOp' = [op |-> "delete", pre |-> cards, arg |-> deleteId]
  /\ storage' = persistEffect(cards')
  /\ steps' = steps + 1
  /\ creates' = -1
  /\ UNCHANGED <<variant, phase, baseUrl, editId, storageBase, imp, zipJob, now>>
  /\ UNCHANGED <<input, output>>

\* setBaseUrl(b) from the toolbar, and the effects on [baseUrl]
SetBaseUrl ==
  /\ Ready
  /\ \E b \in BaseUrlInputs :
       /\ b # baseUrl
       /\ baseUrl' = b
       /\ storageBase' = b
       /\ lastOp' = [op |-> "baseUrl", pre |-> cards, arg |-> b]
       /\ IF variant = "page"
            THEN /\ cards' = recomputeUrls(variant, cards, b)
                 /\ storage' = persistEffect(cards')
            ELSE UNCHANGED <<cards, storage>>
  /\ steps' = steps + 1
  /\ creates' = IF variant = "page" THEN -1 ELSE creates
  /\ UNCHANGED <<variant, phase, editId, deleteId, imp, zipJob, now>>
  /\ UNCHANGED <<input, output>>

\* onImportFiles(files) / onImport(files) up to its first await
ImportStart ==
  /\ Ready
  /\ imp = Null
  /\ \E files \in ImportBatches :
       imp' = IF Len(files) = 0 THEN Null
              ELSE [files |-> files, i |-> 1, imported |-> <<>>, b |-> baseUrl]
  /\ lastOp' = NoOp
  /\ steps' = steps + 1
  /\ UNCHANGED <<creates, variant, phase, cards, baseUrl, editId, deleteId, storage,
                 storageBase, zipJob, now>>
  /\ UNCHANGED <<input, output>>

\* the draws of nanoid() that matter when file f is turned into a card
ImportDraws(f) ==
  IF ~ParseThrows(f.text) /\ ~Truthy(inferredId(f.name))
    THEN RandomDraws(DefaultIdLen) ELSE {<<>>}

\* faulty variant: the catalogue is updated at every resumption
importUpdate_eachFile(v, prev, imported, b, more) ==
  IF imported # <<>> THEN mergeImported(v, prev, imported, b) ELSE prev

\* the catalogue after a resumption of the import: it is updated once, after
\* the loop, and only if some file was parsed
importUpdate(v, prev, imported, b, more) ==
  IF ~more /\ imported # <<>> THEN mergeImported(v, prev, imported, b) ELSE prev

\* the import resumes with the text of file i; after the last file it merges
ImportStep ==
  /\ Ready
  /\ imp # Null
  /\ \E rs \in ImportDraws(imp.files[imp.i]) :
       LET imported == imp.imported
                         \o importedOf(variant, imp.files[imp.i], nanoid(rs), now)
           more == imp.i < Len(imp.files)
       IN  /\ cards' = importUpdate(variant, cards, imported, imp.b, more)
           /\ imp' = IF more
                       THEN [imp EXCEPT !.i = imp.i + 1, !.imported = imported]
                       ELSE Null
           /\ lastOp' = [op |-> IF more THEN "importRead" ELSE "import",
                         pre |-> cards,
                         arg |-> [files |-> imp.files, imported |-> imported]]
           /\ storage' = IF ~more /\ imported # <<>>
                           THEN persistEffect(cards') ELSE storage
           /\ creates' = IF ~more /\ imported # <<>> THEN -1 ELSE creates
  /\ steps' = steps + 1
  /\ UNCHANGED <<variant, phase, baseUrl, editId, deleteId, storageBase, zipJob, now>>
  /\ UNCHANGED <<input, output>>

\* exportZip up to await zip.generateAsync
ExportStart ==
  /\ Ready
  /\ zipJob = Null
  /\ zipJob' = zipOf(variant, cards, baseUrl, now)
  /\ lastOp' = [op |-> "export", pre |-> cards, arg |-> zipJob']
  /\ steps' = steps + 1
  /\ UNCHANGED <<creates, variant, phase, cards, baseUrl, editId, deleteId, storage,
                 storageBase, imp, now>>
  /\ UNCHANGED <<input, output>>

\* exportZip resumes: saveAs(blob, ...)
ExportFinish ==
  /\ Ready
  /\ zipJob # Null
  /\ zipJob' = Null
  /\ lastOp' = [op |-> "saved", pre |-> cards, arg |-> zipJob]
  /\ steps' = steps + 1
  /\ UNCHANGED <<creates, variant, phase, cards, baseUrl, editId, deleteId, storage,
                 storageBase, imp, now>>
  /\ UNCHANGED <<input, output>>

\* time passes
Tick ==
  /\ now < MaxClock
  /\ now' = now + 1
  /\ lastOp' = NoOp
  /\ UNCHANGED <<creates, variant, phase, cards, baseUrl, editId, deleteId, storage,
                 storageBase, imp, zipJob, steps>>
  /\ UNCHANGED <<input, output>>

Next ==
  \/ Mount
  \/ CreateNew
  \/ OpenEdit
  \/ CloseEdit
  \/ Save
  \/ RequestDelete
  \/ CancelDelete
  \/ ConfirmDelete
  \/ SetBaseUrl
  \/ ImportStart
  \/ ImportStep
  \/ ExportStart
  \/ ExportFinish
  \/ Tick

Spec == Init /\ [][Next]_vars

-----------------------------------------------------------------------------
(* Properties *)

IdOf(c) == Field(c, "id")

\* the ids of the catalogue cs are pairwise distinct
IdsDistinct(cs) == \A i, j \in DOMAIN cs : i # j => IdOf(cs[i]) # IdOf(cs[j])

\* the positions of cs that hold a record with id k
PositionsOf(cs, k) == {i \in DOMAIN cs : IdOf(cs[i]) = k}

SyncOps == {"create", "save", "delete"}

AlphaChars == {alpha[i] : i \in DOMAIN alpha}

\* id is base followed by "-" and SuffixLen characters of the alphabet
IsSuffixed(id, base) ==
  /\ IsString(id)
  /\ Len(id.s) = Len(base.s) + 1 + SuffixLen
  /\ SubSeq(id.s, 1, Len(base.s)) = base.s
  /\ id.s[Len(base.s) + 1] = "-"
  /\ \A n \in (Len(base.s) + 2)..Len(id.s) : id.s[n] \in AlphaChars

\* id is a string nanoid() can return
IsGeneratedId(id) ==
  IsString(id) /\ Len(id.s) = DefaultIdLen /\ \A n \in DOMAIN id.s : id.s[n] \in AlphaChars

(* C1: after mount and any sequence of createNew, saveCard, deleteCard and
   import operations, whatever the id generator returns, no two catalogue
   entries have the same id (the stored catalogues of the model have
   pairwise distinct ids). *)
C1_IdsUnique == phase = "ready" => IdsDistinct(cards)

\* a save in page.tsx whose submitted id is the id of another entry
C2_Conflict ==
  /\ variant = "page"
  /\ lastOp.op = "save"
  /\ IdsDistinct(lastOp.pre)
  /\ \E i \in DOMAIN lastOp.pre :
       /\ IdOf(lastOp.pre[i]) = IdOf(lastOp.arg.updated)
       /\ IdOf(lastOp.pre[i]) # lastOp.arg.eid

(* C2: in page.tsx, after a save whose submitted id equals the id of a
   different entry, the saved record is in the catalogue under that id plus
   "-" and 4 generated characters, and no two entries share an id. *)
C2_SaveConflictUnique ==
  C2_Conflict =>
    /\ \E i \in DOMAIN cards :
         /\ IsSuffixed(IdOf(cards[i]), IdOf(lastOp.arg.updated))
         /\ Field(cards[i], "nom") = Field(lastOp.arg.updated, "nom")
    /\ IdsDistinct(cards)

(* C3: after N calls of createNew on an empty catalogue (and nothing else),
   the catalogue has exactly N entries and their ids are pairwise distinct. *)
C3_CreateN == creates >= 0 => Len(cards) = creates /\ IdsDistinct(cards)

\* the files of a batch that parse, in iteration order
ParsedFiles(files) == SelectSeq(files, LAMBDA f : f.text.k = "json")

\* the ids that two or more parsed files of the batch resolve to
SharedIds(files) ==
  {inferredId(ParsedFiles(files)[i].name) : i \in
     {i \in DOMAIN ParsedFiles(files) :
        \E j \in DOMAIN ParsedFiles(files) :
          /\ j # i
          /\ inferredId(ParsedFiles(files)[j].name) = inferredId(ParsedFiles(files)[i].name)}}

\* the last parsed file of the batch that resolves to id k
LastFileOf(files, k) ==
  LET ps == ParsedFiles(files)
      last == CHOOSE i \in DOMAIN ps :
                /\ inferredId(ps[i].name) = k
                /\ \A j \in DOMAIN ps : inferredId(ps[j].name) = k => j <= i
  IN  ps[last]

\* the text member key of the JSON value of file f, "" when it has none
TextIn(f, key) ==
  IF Get(f.text.j, key).t = "str" THEN Get(f.text.j, key) ELSE EmptyStr

\* the catalogue holds exactly one entry with id k, with the content of file f
OneEntryFrom(cs, k, f) ==
  /\ Cardinality(PositionsOf(cs, k)) = 1
  /\ \A i \in PositionsOf(cs, k) :
       /\ Field(cs[i], "nom") = TextIn(f, "nom")
       /\ Field(cs[i], "token") = TextIn(f, "token")

(* C4 as stated: after an import in which two or more parsed files resolve
   to the same id, the catalogue holds exactly one entry with that id, with
   the content of the last such file. *)
C4_LastFileWins ==
  lastOp.op = "import" =>
    \A k \in SharedIds(lastOp.arg.files) :
      OneEntryFrom(cards, k, LastFileOf(lastOp.arg.files, k))

(* C4 amended: the same for every non-empty id that two or more parsed files
   resolve to (files whose name minus .json is empty get generated ids). *)
C4_LastFileWinsNonEmpty ==
  lastOp.op = "import" =>
    \A k \in {x \in SharedIds(lastOp.arg.files) : Truthy(x)} :
      OneEntryFrom(cards, k, LastFileOf(lastOp.arg.files, k))

\* an import of two parsed files with one non-empty id over an entry with it
C4_Witness ==
  /\ lastOp.op = "import"
  /\ \E k \in SharedIds(lastOp.arg.files) :
       Truthy(k) /\ PositionsOf(lastOp.pre, k) # {} /\ PositionsOf(cards, k) # {}

(* C5: after an import, every file that parsed is merged although others did
   not parse, every entry that is new comes from a parsed file, and if no
   file parsed the catalogue and its stored text are as before. *)
C5_SkipBadFiles ==
  lastOp.op = "import" =>
    LET ps == ParsedFiles(lastOp.arg.files)
    IN  /\ ps = <<>> => cards = lastOp.pre /\ storage = JSONstringify(lastOp.pre)
        /\ \A i \in DOMAIN ps :
             Truthy(inferredId(ps[i].name)) =>
               PositionsOf(cards, inferredId(ps[i].name)) # {}
        /\ \A n \in DOMAIN cards :
             \/ PositionsOf(lastOp.pre, IdOf(cards[n])) # {}
             \/ \E i \in DOMAIN ps :
                  IF Truthy(inferredId(ps[i].name))
                    THEN IdOf(cards[n]) = inferredId(ps[i].name)
                    ELSE IsGeneratedId(IdOf(cards[n]))

\* an import in which one file failed to parse and another was merged
C5_Witness ==
  /\ lastOp.op = "import"
  /\ ParsedFiles(lastOp.arg.files) # <<>>
  /\ \E i \in DOMAIN lastOp.arg.files :
       /\ lastOp.arg.files[i].text.k # "json"
       /\ PositionsOf(cards, inferredId(lastOp.arg.files[i].name)) = {}
  /\ cards # lastOp.pre

\* the positions of pre that deleteCard(id) must keep
KeptBy(pre, id) == {i \in DOMAIN pre : IdOf(pre[i]) # id}

(* C6: deleteCard(id) removes the entries whose id is id, keeps every other
   entry unchanged and in the same relative order, and changes nothing when
   no entry has that id. *)
C6_DeleteFrame ==
  lastOp.op = "delete" =>
    LET keep == KeptBy(lastOp.pre, lastOp.arg)
    IN  /\ Len(cards) = Cardinality(keep)
        /\ \A i \in keep :
             cards[Cardinality({j \in keep : j <= i})] = lastOp.pre[i]
        /\ keep = DOMAIN lastOp.pre => cards = lastOp.pre

\* a delete that removed one of several entries
C6_Witness ==
  /\ lastOp.op = "delete"
  /\ Len(lastOp.pre) >= 2
  /\ Len(cards) = Len(lastOp.pre) - 1

\* a save in part_000 whose submitted id is the id of no entry
C7_NoMatch ==
  /\ variant = "admin"
  /\ lastOp.op = "save"
  /\ PositionsOf(lastOp.pre, IdOf(lastOp.arg.updated)) = {}

(* C7: in part_000, saving a record whose id matches no catalogue entry
   leaves the catalogue, and its stored text, exactly as they were. *)
C7_SaveNoMatchNoOp ==
  C7_NoMatch => cards = lastOp.pre /\ storage = JSONstringify(lastOp.pre)

\* such a save, after the user typed an unused, non-empty id
C7_Witness ==
  /\ C7_NoMatch
  /\ Truthy(IdOf(lastOp.arg.updated))
  /\ lastOp.pre # <<>>
  /\ lastOp.arg.updated \notin {lastOp.pre[i] : i \in DOMAIN lastOp.pre}

(* C8: once the page is mounted, after every handler and its persist effect
   the stored text is the serialization of the whole in-memory catalogue. *)
C8_WriteThrough == phase = "ready" => storage = JSONstringify(cards)

\* a mutation of a catalogue of several records has been persisted
C8_Witness ==
  /\ phase = "ready"
  /\ lastOp.op \in SyncOps \cup {"import", "baseUrl"}
  /\ cards # lastOp.pre
  /\ Len(cards) >= 2

\* record c without its url member
WithoutUrl(c) == [k \in DOMAIN c \ {"url"} |-> c[k]]

(* C9: after the load at start the catalogue is empty when the stored text
   is missing, empty, not JSON or not a JSON array, and is the stored array
   when it is one (page.tsx recomputes the url member of its records). *)
C9_LoadAtStart ==
  lastOp.op = "mount" =>
    LET raw == lastOp.arg.raw
    IN  IF raw.t = "text" /\ raw.k = "json" /\ raw.j.t = "arr"
          THEN /\ Len(cards) = Len(raw.j.a)
               /\ \A i \in DOMAIN cards : WithoutUrl(cards[i]) = WithoutUrl(raw.j.a[i].o)
          ELSE cards = <<>>

(* C10 as stated: no create, save or delete acts between the start of an
   import and its catalogue update. *)
C10_NoInterleaving == ~(imp # Null /\ lastOp.op \in SyncOps)

(* C10 amended: create, save and delete complete, persist effect included,
   in their handler, also while an import or an export is suspended; an
   import suspends at each file read and updates the catalogue only in its
   last resumption; an export never updates it. *)
C10_OnlyAsyncSuspend ==
  /\ lastOp.op \in SyncOps => storage = JSONstringify(cards)
  /\ lastOp.op = "importRead" => imp # Null /\ cards = lastOp.pre
  /\ lastOp.op \in {"export", "saved"} => cards = lastOp.pre

\* a create, save or delete has changed the catalogue while an import is suspended
C10_Witness == imp # Null /\ lastOp.op \in SyncOps /\ cards # lastOp.pre

\* the clock value a stamp written by nowISO stands for
ClockOf(stamp) == (CHOOSE d \in DOMAIN Digits : Digits[d] = stamp.s[2]) - 1

(* C11: after each save from the edit dialog, the catalogue entry of the
   record that was open for editing carries a lastUpdate equal to the clock
   value at the time of the save, and that value is not earlier than the
   lastUpdate the entry had before the save. *)
C11_SaveRefreshes ==
  lastOp.op = "save" =>
    \A i \in PositionsOf(lastOp.pre, lastOp.arg.eid) :
      /\ Field(cards[i], "last_update") = nowISO(now)
      /\ ClockOf(Field(cards[i], "last_update"))
           >= ClockOf(Field(lastOp.pre[i], "last_update"))

\* the member k of every record of the catalogue cs is a sequence
AllSequences(cs, k) == \A i \in DOMAIN cs : IsArray(Field(cs[i], k))

(* C12: in every state of the mounted page (after the load from storage,
   createNew, saveCard, deleteCard and imports), the allergies and the
   medicaments of every catalogue record are sequences, never absent. *)
C12_ListsAreSequences ==
  phase = "ready" => AllSequences(cards, "allergies") /\ AllSequences(cards, "medicaments")

-----------------------------------------------------------------------------
(* The pure functions applied on their own: the initial state draws the
   arguments, one action applies the function; in the state "json" the
   output of cardToJson can be passed back to fromJsonToCard *)

S_example_org == <<"e","x","a","m","p","l","e",".","o","r","g","/">>
S_abc123 == <<"a","b","c","1","2","3">>
S_tok == <<"t","o","k">>

UrlBases ==
  {EmptyStr, Str(<<"x","/">>), Str(<<"y">>), Str(<<"h","t","t","p","s",":","/","/","h">>),
   Str(<<"/">>), Str(<<" ">>)}
UrlIds == {Str(<<"b">>), Str(<<"m">>), Str(<<"a"," ","b">>), Str(<<"a","/","b">>)}
UrlTokens == {EmptyStr, Str(<<"k">>), Str(<<"?">>)}

\* the arguments of buildPublicUrl(baseUrl, id, token)
UrlInputs ==
  {[k |-> "url", b |-> b, id |-> id, token |-> token] :
     b \in UrlBases, id \in UrlIds, token \in UrlTokens}
  \cup {[k |-> "url", b |-> Str(S_example_org), id |-> Str(S_abc123), token |-> Str(S_tok)]}

\* JSON values a file may hold
JsonValues ==
  {Null, Num(5), Str(<<"s">>), Arr(<<Str(<<"s">>)>>), Obj(<<>>),
   Obj([nom |-> Str(<<"A">>), token |-> Num(5)]),
   Obj([token |-> Str(<<"k">>), telephone |-> Str(<<"9">>),
        urgence |-> Obj([nom |-> Str(<<"U">>)])]),
   Obj([allergies |-> Str(<<"a"," ","\n"," ","b">>),
        medicaments |-> Arr(<<Str(<<" ","p">>), Num(5), EmptyStr>>)]),
   Obj([allergies |-> Str(<<"a"," ",","," ","b",",",",","c">>),
        medicaments |-> Str(<<"p","\n","\n","q">>),
        urgence |-> Num(5)]),
   Obj([nom |-> Arr(<<>>), adresse |-> Null, allergies |-> Num(7),
        urgence |-> Obj([nom |-> Num(1), telephone |-> Str(<<"9">>)])])}

\* the arguments of fromJsonToCard(json, id)
JsonInputs ==
  {[k |-> "json", json |-> j, id |-> id] : j \in JsonValues, id \in {Id_b, EmptyStr}}

\* well-typed records (type MedicalCard): contact null, partly filled or
\* filled, token empty or not, lists empty or not
ValidCards(v) ==
  LET r0 == With(With(NewCard(v, Id_b, Str(<<"x">>), 0), "nom", Str(<<"A">>)),
                 "adresse", Str(<<"1"," ","r">>))
      lists == With(With(r0, "allergies", Arr(<<Str(<<"a">>), Str(<<"b"," ","c">>)>>)),
                    "medicaments", Arr(<<Str(<<"p">>)>>))
  IN  {r0,
       With(r0, "urgence", Null),
       With(With(lists, "urgence", Null), "token", Str(<<"k">>)),
       With(lists, "urgence", Obj([nom |-> Str(<<"U">>), telephone |-> Str(<<"9">>)])),
       With(With(lists, "token", Str(<<"k">>)), "urgence", Obj([nom |-> Str(<<"U">>)]))}

\* records an import produces from files whose members are not strings
ImportedCards(v) ==
  {fromJsonToCard(v, j, Id_b, EmptyStr, 0) :
     j \in {Obj([nom |-> Str(<<"A">>), token |-> Num(5)]),
            Obj([token |-> Str(<<"k">>),
                 urgence |-> Obj([nom |-> Num(1), telephone |-> Str(<<"9">>)])])}}

\* the arguments of cardToJson(card, baseUrl)
CardInputs(v) ==
  {[k |-> "card", card |-> c, b |-> Str(<<"x">>), valid |-> TRUE] : c \in ValidCards(v)}
  \cup {[k |-> "card", card |-> c, b |-> Str(<<"x">>), valid |-> FALSE] :
          c \in ImportedCards(v) \ ValidCards(v)}

PureInit ==
  /\ variant \in Variants
  /\ phase = "pure"
  /\ input \in UrlInputs \cup JsonInputs \cup CardInputs(variant)
  /\ output = Null
  /\ now \in 0..MaxClock
  /\ cards = <<>>
  /\ baseUrl = Str(DefaultHost(variant))
  /\ editId = Null
  /\ deleteId = Null
  /\ storage = Null
  /\ storageBase = Null
  /\ imp = Null
  /\ zipJob = Null
  /\ steps = 0
  /\ creates = -1
  /\ lastOp = NoOp

PureFrame ==
  UNCHANGED <<variant, cards, baseUrl, editId, deleteId, storage, storageBase,
              imp, zipJob, now, steps, creates, lastOp, input>>

BuildPublicUrl ==
  /\ phase = "pure"
  /\ input.k = "url"
  /\ output' = buildPublicUrl(variant, input.b, input.id, input.token)
  /\ phase' = "url"
  /\ PureFrame

CardToJson ==
  /\ phase = "pure"
  /\ input.k = "card"
  /\ output' = cardToJson(variant, input.card, input.b, now)
  /\ phase' = "json"
  /\ PureFrame

FromJsonToCard ==
  /\ phase = "pure"
  /\ input.k = "json"
  /\ \E rs \in RandomDraws(DefaultIdLen) :
       output' = fromJsonToCard(variant, input.json, input.id, nanoid(rs), now)
  /\ phase' = "card"
  /\ PureFrame

\* fromJsonToCard(cardToJson(r), r.id)
RoundTrip ==
  /\ phase = "json"
  /\ \E rs \in RandomDraws(DefaultIdLen) :
       output' = fromJsonToCard(variant, output, Field(input.card, "id"), nanoid(rs), now)
  /\ phase' = "back"
  /\ PureFrame

PureNext == BuildPublicUrl \/ CardToJson \/ FromJsonToCard \/ RoundTrip

SpecPure == PureInit /\ [][PureNext]_vars

\* the number of positions of s at which pat occurs
Occurrences(s, pat) ==
  Cardinality({i \in 1..(Len(s) - Len(pat) + 1) : SubSeq(s, i, i + Len(pat) - 1) = pat})

S_m == <<"/","m","/">>
S_t == <<"?","t","=">>

(* C13 as stated: the string buildPublicUrl returns contains exactly one
   occurrence of the percent-encoded id, and contains "?t=" followed by the
   percent-encoded token if and only if the token is not empty. *)
C13_OneOccurrence ==
  phase = "url" =>
    /\ Occurrences(output.s, encodeURIComponent(input.id).s) = 1
    /\ Occurrences(output.s, S_t \o encodeURIComponent(input.token).s) > 0
         <=> input.token # EmptyStr

\* the path and query buildPublicUrl appends for id and token
UrlTail(id, token) ==
  S_m \o encodeURIComponent(id).s
      \o (IF token # EmptyStr THEN S_t \o encodeURIComponent(token).s ELSE <<>>)

(* C13 amended: the string buildPublicUrl returns is the normalized base
   URL (the default host when that is empty), then "/m/" and the
   percent-encoded id, then "?t=" and the percent-encoded token if and only
   if the token is not empty; the encoded id and token hold no "/", "?" or
   "=", so the id is exactly the one path segment after "/m/". *)
C13_UrlShape ==
  phase = "url" =>
    LET tail == UrlTail(input.id, input.token)
    IN  /\ EndsWith(output.s, tail)
        /\ SubSeq(output.s, 1, Len(output.s) - Len(tail))
             = ToChars(Or(sanitizeBaseUrl(variant, input.b), Str(DefaultHost(variant))))
        /\ \A n \in DOMAIN tail :
             n > Len(S_m) /\ tail[n] \in {"/", "?", "="} =>
               /\ n > Len(S_m) + Len(encodeURIComponent(input.id).s)
               /\ n <= Len(S_m) + Len(encodeURIComponent(input.id).s) + Len(S_t)

\* a URL was built for an id that also occurs elsewhere in it, with a token
C13_Witness ==
  /\ phase = "url"
  /\ input.id = Str(<<"m">>)
  /\ input.token = Str(<<"?">>)
  /\ Occurrences(output.s, <<"m">>) > 1

S_example_url ==
  <<"e","x","a","m","p","l","e",".","o","r","g","/","m","/","a","b","c","1","2","3",
    "?","t","=","t","o","k">>

\* buildPublicUrl("example.org/", "abc123", "tok") has been applied
ExampleApplied ==
  /\ phase = "url"
  /\ input.b = Str(S_example_org)
  /\ input.id = Str(S_abc123)
  /\ input.token = Str(S_tok)

(* C14 as stated: in both variants buildPublicUrl("example.org/", "abc123",
   "tok") returns exactly "example.org/m/abc123?t=tok". *)
C14_ExampleBoth == ExampleApplied => output = Str(S_example_url)

(* C14 amended: buildPublicUrl("example.org/", "abc123", "tok") returns
   "example.org/m/abc123?t=tok" in part_000 and
   "https://example.org/m/abc123?t=tok" in page.tsx: one trailing slash of
   the base URL is trimmed in both, and page.tsx prepends "https://" to a
   base URL that has no scheme. *)
C14_ExamplePerVariant ==
  ExampleApplied =>
    output = Str((IF variant = "page" THEN S_https ELSE <<>>) \o S_example_url)

\* the example has been applied in page.tsx
C14_Witness == ExampleApplied /\ variant = "page" /\ output # Null

\* the members of a record that the round trip is to preserve
RoundTripFields ==
  {"nom", "adresse", "telephone", "groupe_sanguin", "allergies", "traitements",
   "medicaments", "urgence", "last_update", "token"}

\* the contact u with null, and a missing name or phone, read as empty strings
ContactOrEmpty(u) ==
  Obj([nom |-> IF IsString(Get(u, "nom")) THEN Get(u, "nom") ELSE EmptyStr,
       telephone |-> IF IsString(Get(u, "telephone")) THEN Get(u, "telephone")
                     ELSE EmptyStr])

(* C15 as stated: for every valid record r, fromJsonToCard(cardToJson(r),
   r.id) equals r in name, address, phone, blood type, allergies,
   treatments, medications, emergency contact, lastUpdate and token. *)
C15_RoundTripEqual ==
  (phase = "back" /\ input.valid) =>
    \A k \in RoundTripFields : Field(output, k) = Field(input.card, k)

(* C15 amended: the same, except that the emergency contact comes back as a
   contact object in which null, and a missing name or phone, have become
   empty strings. *)
C15_RoundTripNormalized ==
  (phase = "back" /\ input.valid) =>
    /\ \A k \in RoundTripFields \ {"urgence"} : Field(output, k) = Field(input.card, k)
    /\ Field(output, "urgence") = ContactOrEmpty(Field(input.card, "urgence"))

\* the round trip of a record with a null contact and a token, with lists
C15_Witness ==
  /\ phase = "back"
  /\ input.valid
  /\ Field(input.card, "urgence") = Null
  /\ Field(input.card, "token") # EmptyStr
  /\ Field(output, "allergies") # Arr(<<>>)

TextFields == {"token", "nom", "adresse", "telephone", "groupe_sanguin", "traitements"}

\* the member k of the JSON value j when it is a string, "" otherwise
StringOrDefault(j, k) == IF IsString(Get(j, k)) THEN Get(j, k) ELSE EmptyStr

(* C16: fromJsonToCard applied to any JSON value returns a record whose text
   fields (token, name, address, phone, blood type, treatments, contact name
   and phone) are strings: the input member when it is a string, the empty
   string otherwise; a value that is not an object gives all-default
   fields. *)
C16_TextFieldsAreStrings ==
  phase = "card" =>
    /\ \A k \in TextFields : Field(output, k) = StringOrDefault(input.json, k)
    /\ Field(output, "urgence")
         = Obj([nom |-> StringOrDefault(Get(input.json, "urgence"), "nom"),
                telephone |-> StringOrDefault(Get(input.json, "urgence"), "telephone")])
    /\ ~IsObject(input.json) =>
         /\ Field(output, "allergies") = Arr(<<>>)
         /\ Field(output, "medicaments") = Arr(<<>>)
         /\ Field(output, "last_update") = nowISO(now)

\* x is a non-empty string without leading or trailing whitespace
IsTrimmedText(x) ==
  /\ IsString(x)
  /\ x.s # <<>>
  /\ x.s[1] \notin Whitespace
  /\ x.s[Len(x.s)] \notin Whitespace

(* C17: the allergies and medicaments fromJsonToCard produces are, for every
   input, sequences whose elements are non-empty strings without leading or
   trailing whitespace. *)
C17_ListElementsTrimmed ==
  phase = "card" =>
    \A k \in {"allergies", "medicaments"} :
      /\ IsArray(Field(output, k))
      /\ \A n \in DOMAIN Field(output, k).a : IsTrimmedText(Field(output, k).a[n])

(* C18: the object cardToJson returns has the key token if and only if the
   record's token is a non-empty string, has a contact object with string
   name and phone, and has every text field and both sequences. *)
C18_ExportShape ==
  phase = "json" =>
    /\ "token" \in DOMAIN output.o
         <=> (IsString(Field(input.card, "token")) /\ Field(input.card, "token") # EmptyStr)
    /\ IsObject(Get(output, "urgence"))
    /\ IsString(Get(Get(output, "urgence"), "nom"))
    /\ IsString(Get(Get(output, "urgence"), "telephone"))
    /\ \A k \in TextFields \ {"token"} : Get(output, k) # Undef
    /\ IsArray(Get(output, "allergies"))
    /\ IsArray(Get(output, "medicaments"))

(* C19: createNew puts the new record, with a generated id, empty text
   fields, empty allergies and medicaments, an empty contact and lastUpdate
   set to the current time, first in the catalogue, keeps the existing
   entries unchanged and in order after it, and sets editId to its id. *)
C19_CreateNewFirst ==
  lastOp.op = "create" =>
    /\ Len(cards) = Len(lastOp.pre) + 1
    /\ \A i \in DOMAIN lastOp.pre : cards[i + 1] = lastOp.pre[i]
    /\ IsGeneratedId(IdOf(cards[1]))
    /\ \A k \in TextFields : Field(cards[1], k) = EmptyStr
    /\ Field(cards[1], "allergies") = Arr(<<>>)
    /\ Field(cards[1], "medicaments") = Arr(<<>>)
    /\ Field(cards[1], "urgence") = Obj([nom |-> EmptyStr, telephone |-> EmptyStr])
    /\ Field(cards[1], "last_update") = nowISO(now)
    /\ editId = IdOf(cards[1])

\* a record was created in a catalogue of several records, the clock advanced
C19_Witness ==
  /\ lastOp.op = "create"
  /\ Len(lastOp.pre) >= 2
  /\ now > 0
  /\ cards[1] \notin {lastOp.pre[i] : i \in DOMAIN lastOp.pre}

(* C20: the archive exportZip builds holds, under data/, exactly one file
   per record of the catalogue as it stood when the export was triggered,
   named <id>.json with content cardToJson of that record, and a README
   naming the base URL; so it has as many JSON files as the catalogue has
   records. *)
C20_ArchivePerRecord ==
  lastOp.op = "export" =>
    LET files == lastOp.arg.data
    IN  /\ Len(files) = Len(lastOp.pre)
        /\ \A i \in DOMAIN lastOp.pre :
             \E n \in DOMAIN files :
               /\ files[n].key = ToChars(IdOf(lastOp.pre[i])) \o S_dotjson
               /\ files[n].val = cardToJson(variant, lastOp.pre[i], baseUrl, now)
        /\ lastOp.arg.readme = sanitizeBaseUrl(variant, baseUrl)
        /\ cards = lastOp.pre

(* C21: in page.tsx, whenever handlers and effects have settled, the url
   stored on every catalogue record is buildPublicUrl of the current base
   URL, the record's id and the record's token, also after a base-URL
   change made while an import is reading its files. *)
C21_StoredUrlCurrent ==
  (variant = "page" /\ phase = "ready") =>
    \A i \in DOMAIN cards :
      Field(cards[i], "url")
        = buildPublicUrl(variant, baseUrl, IdOf(cards[i]), Field(cards[i], "token"))

\* entry c carries the contents submitted by the edit dialog, stamped at clock
IsSaved(c, updated, clock) ==
  /\ \A k \in TextFields \cup {"allergies", "medicaments", "urgence"} :
       Field(c, k) = Field(updated, k)
  /\ Field(c, "last_update") = nowISO(clock)

\* after a save, the entries with id target are the submitted record and
\* every other entry is as before, at the same position
SaveReplaces(target) ==
  /\ Len(cards) = Len(lastOp.pre)
  /\ \A i \in DOMAIN lastOp.pre :
       IF IdOf(lastOp.pre[i]) = target
         THEN IsSaved(cards[i], lastOp.arg.updated, now)
         ELSE cards[i] = lastOp.pre[i]

(* C22 as stated: in both variants a save keeps the size and order of the
   catalogue, replaces the entry that was opened for editing by the
   submitted record, also when its id was changed in the form, and leaves
   every other entry unchanged. *)
C22_SaveReplacesOpened == lastOp.op = "save" => SaveReplaces(lastOp.arg.eid)

(* C22 amended: a save keeps the size and order of the catalogue; page.tsx
   replaces the entry that was opened for editing (id editId), part_000
   replaces the entry whose id is the id submitted by the form, which is
   another entry, or none, when the user changed the id; every entry with
   another id is left unchanged. *)
C22_SaveReplacesTarget ==
  lastOp.op = "save" =>
    SaveReplaces(IF variant = "page" THEN lastOp.arg.eid
                 ELSE IdOf(lastOp.arg.updated))

\* part_000: the user typed the id of another entry, which the save replaced
C22_Witness ==
  /\ lastOp.op = "save"
  /\ variant = "admin"
  /\ IdOf(lastOp.arg.updated) # lastOp.arg.eid
  /\ PositionsOf(lastOp.pre, IdOf(lastOp.arg.updated)) # {}
  /\ cards # lastOp.pre

\* the text raw is a JSON array
IsStoredArray(raw) == raw.t = "text" /\ raw.k = "json" /\ raw.j.t = "arr"

\* the catalogue cs holds the records of the JSON array arr (page.tsx
\* recomputes their url member)
HoldsRecordsOf(cs, arr) ==
  /\ Len(cs) = Len(arr.a)
  /\ \A i \in DOMAIN cs : WithoutUrl(cs[i]) = WithoutUrl(arr.a[i].o)

(* C23: if the storage key holds a JSON array A when the page mounts, then
   after the mount effects have settled the catalogue holds the records of
   A and the storage key holds them again, whether the mount effects ran
   once or, under reactStrictMode, twice. *)
C23_StartupKeepsCatalogue ==
  (lastOp.op = "mount" /\ IsStoredArray(lastOp.arg.raw)) =>
    /\ HoldsRecordsOf(cards, lastOp.arg.raw.j)
    /\ IsStoredArray(storage)
    /\ HoldsRecordsOf(ArrayItems(storage.j), lastOp.arg.raw.j)

\* the ids of the sequence ids that are not in seen, each once, in the order
\* of their first occurrence
RECURSIVE FirstOccurrences(_, _)
FirstOccurrences(seen, ids) ==
  IF ids = <<>> THEN <<>>
  ELSE IF Head(ids) \in seen THEN FirstOccurrences(seen, Tail(ids))
  ELSE <<Head(ids)>> \o FirstOccurrences(seen \cup {Head(ids)}, Tail(ids))

\* the ids of the records of cs, in order, and as a set
IdSeq(cs) == [i \in DOMAIN cs |-> IdOf(cs[i])]
IdSet(cs) == {IdOf(cs[i]) : i \in DOMAIN cs}

(* C24: after an import, every entry of the catalogue as it was at the merge
   is at its position, unchanged when its id is the id of no parsed file and
   with the same id when it was replaced, and the records with new ids
   follow all of them in file order. *)
C24_ImportFrame ==
  lastOp.op = "import" =>
    LET pre == lastOp.pre
        batch == IdSet(lastOp.arg.imported)
        added == FirstOccurrences(IdSet(pre), IdSeq(lastOp.arg.imported))
    IN  /\ Len(cards) = Len(pre) + Len(added)
        /\ \A i \in DOMAIN pre :
             /\ IdOf(cards[i]) = IdOf(pre[i])
             /\ IdOf(pre[i]) \notin batch => cards[i] = pre[i]
        /\ \A n \in DOMAIN added : IdOf(cards[Len(pre) + n]) = added[n]

\* the entries of cs with id k, in order
EntriesOf(cs, k) == SelectSeq(cs, LAMBDA c : IdOf(c) = k)

\* this step is the last resumption of an import: it merges its records
MergeStep == imp # Null /\ imp' = Null

(* C25: the merge of an import is applied to the catalogue as it stands when
   the import's last file has been read, which holds every change createNew,
   saveCard and deleteCard made since the import started: every entry of that
   catalogue whose id is not in the batch is in the catalogue after the
   merge, as often and in the same order. *)
C25_NoLostUpdate ==
  [][MergeStep =>
       \A k \in IdSet(cards) \ IdSet(lastOp'.arg.imported) :
         EntriesOf(cards', k) = EntriesOf(cards, k)]_vars

\* the base URL b is empty once its surrounding whitespace (page.tsx) and one
\* trailing slash are removed
NormalizesToEmpty(v, b) ==
  StripTrailingSlash(IF v = "page" THEN Trim(ToChars(b)) ELSE ToChars(b)) = <<>>

\* what follows the scheme in the origin s
HostPart(s) ==
  IF StartsWith(LowerCase(s), S_https) THEN SubSeq(s, Len(S_https) + 1, Len(s))
  ELSE IF StartsWith(LowerCase(s), S_http) THEN SubSeq(s, Len(S_http) + 1, Len(s))
  ELSE s

(* C26: when the base URL is empty after normalization, what buildPublicUrl
   returns is the default host of the variant followed by the path of the
   id, and the host part before "/m/" is not empty. *)
C26_DefaultHostUsed ==
  (phase = "url" /\ NormalizesToEmpty(variant, input.b)) =>
    LET tail == UrlTail(input.id, input.token)
        origin == SubSeq(output.s, 1, Len(output.s) - Len(tail))
    IN  /\ EndsWith(output.s, tail)
        /\ origin = DefaultHost(variant)
        /\ HostPart(origin) # <<>>

====
